---- MODULE Spec2Model ----
(***************************************************************************)
(* A model of the real-time to-do list service (NestJS + Prisma +          *)
(* Socket.IO): the TasksService operations create / findAll / findOne /    *)
(* update / remove, the TaskGateway that broadcasts taskCreated /          *)
(* taskUpdated / taskDeleted, the task table behind PrismaService, and the *)
(* class-validator boundary (ValidationPipe + DTOs) in front of the        *)
(* service.                                                                *)
(*                                                                         *)
(* Every `await` of the service is a point where other requests may run,   *)
(* so each request is a small process: one step per awaited store call and *)
(* one step for the synchronous continuation that emits and returns.       *)
(***************************************************************************)
EXTENDS Integers, Sequences, FiniteSets, TLC

\* ------------------------------------------------------------------ bounds
\* Number of service invocations in one behaviour.
MaxReqs == 3
\* Largest id the autoincrement column hands out in one behaviour.
MaxId == 2
\* Number of socket.io clients that may connect.
NumClients == 1
\* Number of HTTP requests in one behaviour of the boundary specification.
MaxHttpReqs == 2

Reqs == 1..MaxReqs
Ids == 1..MaxId
Clients == 1..NumClients

\* ------------------------------------------------------------ JS values
\* Values are tagged records, so that a text, null and a row can be compared.
Str(s) == [t |-> "string", s |-> s]
Num(n) == [t |-> "number", n |-> n]
Null == [t |-> "null"]
\* A local that has not been assigned yet.
Undefined == [t |-> "undefined"]

\* enum Status of the Prisma client, as UpdateTaskDto imports it.
Status == {"pendiente", "en_progreso", "completada"}

\* The partial objects over `fields`: every subset of the fields, each present
\* field holding one of its values in valsOf.
RECURSIVE ObjectsOver(_, _)
ObjectsOver(fields, valsOf) ==
    IF fields = {} THEN { <<>> }
    ELSE LET f == CHOOSE x \in fields : TRUE
             rest == ObjectsOver(fields \ {f}, valsOf)
         IN  rest \cup { (f :> v) @@ g : v \in valsOf[f], g \in rest }

PartialObjects(valsOf) == ObjectsOver(DOMAIN valsOf, valsOf)

\* Arguments the service methods are called with (typed as the DTO classes; a
\* create argument may carry an extra status, which TypeScript does not stop
\* at run time).
CreateDtos ==
    { [titulo |-> Str("a")],
      [titulo |-> Str("a"), descripcion |-> Str("d")],
      [titulo |-> Str("a"), descripcion |-> Str("d"), status |-> Str("completada")] }

UpdateDtos ==
    PartialObjects([titulo |-> {Str("b")},
                    descripcion |-> {Str("e")},
                    status |-> {Str("completada")}])

\* ---------------------------------------------------------- configuration
\* The values of process.env are texts; here a text is the sequence of its
\* characters, so that converting and matching it is computed.
Digits == <<"0", "1", "2", "3", "4", "5", "6", "7", "8", "9">>
IsDigit(c) == \E k \in DOMAIN Digits : Digits[k] = c
DigitValue(c) == (CHOOSE k \in DOMAIN Digits : Digits[k] = c) - 1
Letters ==
    {"a", "b", "c", "d", "e", "f", "g", "h", "i", "j", "k", "l", "m",
     "n", "o", "p", "q", "r", "s", "t", "u", "v", "w", "x", "y", "z"}

\* The number a text of digits denotes.
RECURSIVE DecimalValue(_)
DecimalValue(cs) ==
    IF cs = <<>> THEN 0
    ELSE 10 * DecimalValue(SubSeq(cs, 1, Len(cs) - 1)) + DigitValue(cs[Len(cs)])

\* joi.number() on a text: a text of digits converts to its number, any
\* other text (the empty one too) is not a number.
ToNumber(cs) ==
    IF cs # <<>> /\ \A k \in DOMAIN cs : IsDigit(cs[k])
    THEN Num(DecimalValue(cs))
    ELSE [t |-> "NaN"]

\* joi.string().uri(): a scheme (a letter, then letters, digits, + - .),
\* a colon, and a rest without blanks.
IsUri(cs) ==
    \E c \in DOMAIN cs :
        /\ cs[c] = ":"
        /\ c > 1
        /\ cs[1] \in Letters
        /\ \A k \in 2..(c - 1) : cs[k] \in Letters \cup {"+", "-", "."} \/ IsDigit(cs[k])
        /\ \A k \in (c + 1)..Len(cs) : cs[k] # " "

\* The values .valid(...) allows for NODE_ENV, and its .default(...).
NodeEnvs ==
    {<<"d", "e", "v", "e", "l", "o", "p", "m", "e", "n", "t">>,
     <<"p", "r", "o", "d", "u", "c", "t", "i", "o", "n">>,
     <<"t", "e", "s", "t">>}
NodeEnvDefault == <<"d", "e", "v", "e", "l", "o", "p", "m", "e", "n", "t">>

\* Mutant of EnvsSchemaError: NODE_ENV without .valid(...).
EnvsSchemaErrorAnyNodeEnv(env) ==
    IF "PORT_API" \notin DOMAIN env
        THEN [key |-> "PORT_API", type |-> "any.required"]
    ELSE IF ToNumber(env.PORT_API).t # "number"
        THEN [key |-> "PORT_API", type |-> "number.base"]
    ELSE IF "DATABASE_URL" \notin DOMAIN env
        THEN [key |-> "DATABASE_URL", type |-> "any.required"]
    ELSE IF env.DATABASE_URL = <<>>
        THEN [key |-> "DATABASE_URL", type |-> "string.empty"]
    ELSE IF ~IsUri(env.DATABASE_URL)
        THEN [key |-> "DATABASE_URL", type |-> "string.uri"]
    ELSE Null

\* envsSchema.validate(process.env).error: the first rule broken, in the
\* order of the keys of the schema; null when none is.
EnvsSchemaError(env) ==
    IF "PORT_API" \notin DOMAIN env
        THEN [key |-> "PORT_API", type |-> "any.required"]
    ELSE IF ToNumber(env.PORT_API).t # "number"
        THEN [key |-> "PORT_API", type |-> "number.base"]
    ELSE IF "DATABASE_URL" \notin DOMAIN env
        THEN [key |-> "DATABASE_URL", type |-> "any.required"]
    ELSE IF env.DATABASE_URL = <<>>
        THEN [key |-> "DATABASE_URL", type |-> "string.empty"]
    ELSE IF ~IsUri(env.DATABASE_URL)
        THEN [key |-> "DATABASE_URL", type |-> "string.uri"]
    ELSE IF "NODE_ENV" \in DOMAIN env /\ env.NODE_ENV \notin NodeEnvs
        THEN [key |-> "NODE_ENV", type |-> "any.only"]
    ELSE Null

\* envsSchema.validate(process.env).value, as envs takes it: the port
\* converted, NODE_ENV defaulted.
Envs(env) ==
    [PORT_API |-> ToNumber(env.PORT_API),
     DATABASE_URL |-> env.DATABASE_URL,
     NODE_ENV |-> IF "NODE_ENV" \in DOMAIN env THEN env.NODE_ENV ELSE NodeEnvDefault]

\* The .env of the README.
ReadmeEnv ==
    [DATABASE_URL |-> <<"f", "i", "l", "e", ":", ".", "/", "d", "e", "v", ".", "d", "b">>,
     PORT_API |-> <<"3", "0", "0", "0">>]

\* The environments the process is started in: every subset of the three
\* variables, each with one of these values.
Environments ==
    PartialObjects(
        [PORT_API |-> {<<"3", "0", "0", "0">>, <<"8", "0">>, <<"a", "b", "c">>, <<>>},
         DATABASE_URL |-> {ReadmeEnv.DATABASE_URL, <<"d", "e", "v", ".", "d", "b">>, <<>>},
         NODE_ENV |-> NodeEnvs \cup {<<"s", "t", "a", "g", "i", "n", "g">>}])

\* A process about to load its configuration, and a process that serves.
Starting(env) == [phase |-> "loading", env |-> env, envs |-> Undefined, error |-> Null]
Serving(env) == [phase |-> "listening", env |-> env, envs |-> Envs(env), error |-> Null]

\* ------------------------------------------------------------------ state
VARIABLES
    store,      \* the task table: id -> row, or Null where there is no row
    nextId,     \* the autoincrement counter of the id column
    clock,      \* the store's clock: the last timestamp it handed out
    commits,    \* history: the store mutations that committed, in commit order
    req,        \* the service invocations: locals, position, result
    started,    \* how many invocations have begun
    published,  \* the events handed to server.emit, in emit order
    connected,  \* the socket.io sessions connected now
    proc        \* the server process: its environment, its configuration
                \* and how far its start has come

vars == <<store, nextId, clock, commits, req, started, published, connected, proc>>

\* An invocation that has not begun.
Idle == [op |-> "none", pc |-> "idle", id |-> 0, dto |-> <<>>, body |-> Undefined,
         task |-> Undefined, row |-> Undefined, result |-> Undefined,
         calls |-> 0, reads |-> 0, muts |-> 0, emits |-> 0]

Init ==
    /\ store = [i \in Ids |-> Null]
    /\ nextId = 1
    /\ clock = 0
    /\ commits = <<>>
    /\ req = [r \in Reqs |-> Idle]
    /\ started = 0
    /\ published = <<>>
    /\ connected = {}
    /\ proc = Serving(ReadmeEnv)

\* ------------------------------------------------------ the task table
\* What an awaited store call yields when it rejects.
Fault == [t |-> "fault"]

\* The timestamp the store gives the next write.
Now == clock + 1

\* An array value.
Array(items) == [t |-> "array", items |-> items]

\* prisma.task.create: the row inserted for `data`. The id comes from the
\* autoincrement counter, an absent description is stored as null, an absent
\* status takes the column default, both timestamps are the time of the insert.
NewRow(data) ==
    [id |-> nextId,
     titulo |-> data.titulo,
     descripcion |-> IF "descripcion" \in DOMAIN data THEN data.descripcion ELSE Null,
     status |-> IF "status" \in DOMAIN data THEN data.status ELSE Str("pendiente"),
     fechaCreacion |-> Now,
     fechaActualizacion |-> Now]

\* prisma.task.update: `row` with the fields of `data` written over it and
\* fechaActualizacion refreshed.
Patched(row, data) ==
    [f \in DOMAIN row |->
        IF f \in DOMAIN data THEN data[f]
        ELSE IF f = "fechaActualizacion" THEN Now
        ELSE row[f]]

\* prisma.task.findUnique({where: {id}}): the row, or null.
FindUnique(id) == store[id]

RECURSIVE RowsFrom(_)
RowsFrom(i) ==
    IF i > MaxId THEN <<>>
    ELSE (IF store[i] = Null THEN <<>> ELSE <<store[i]>>) \o RowsFrom(i + 1)

\* prisma.task.findMany(): every row, in id order.
FindMany == Array(RowsFrom(1))

\* --------------------------------------------------------- TaskGateway
\* emitTaskCreated / emitTaskUpdated / emitTaskDeleted: the event name and
\* payload handed to server.emit.
EmitTaskCreated(task) == [event |-> "taskCreated", payload |-> task]
EmitTaskUpdated(task) == [event |-> "taskUpdated", payload |-> task]
EmitTaskDeleted(task) == [event |-> "taskDeleted", payload |-> task]

\* Mutant of Broadcast: the event is put before the events already published.
BroadcastAhead(ev, r) ==
    <<[event |-> ev.event, payload |-> ev.payload, by |-> r, to |-> connected]>>
        \o published

\* Mutant of Broadcast: the event is kept for every session, connected or not.
BroadcastToEverySession(ev, r) ==
    Append(published, [event |-> ev.event, payload |-> ev.payload,
                       by |-> r, to |-> Clients])

\* server.emit: the event goes to the sessions connected at that moment. The
\* log keeps which invocation emitted it.
Broadcast(ev, r) ==
    Append(published, [event |-> ev.event, payload |-> ev.payload,
                       by |-> r, to |-> connected])

\* Mutant of NotFoundMessage: the message names no particular id.
NotFoundMessageWithoutId(id) ==
    [prefix |-> "La tarea con ID ", id |-> 0, suffix |-> " no existe"]

\* ------------------------------------------------- TasksService helpers
\* The errors an invocation can end with.
NotFoundMessage(id) == [prefix |-> "La tarea con ID ", id |-> id, suffix |-> " no existe"]
NotFoundException(id) == [kind |-> "error", error |-> "NotFound", message |-> NotFoundMessage(id)]
StoreFault == [kind |-> "error", error |-> "StoreFault"]
PublishFault == [kind |-> "error", error |-> "PublishFault"]

\* An exception leaves the method; a return resolves its promise. Either way
\* the call is over and its dto argument is no longer live.
Throw(q, err) == [q EXCEPT !.pc = "done", !.dto = <<>>, !.result = err]
Return(q, v) ==
    [q EXCEPT !.pc = "done", !.dto = <<>>, !.result = [kind |-> "ok", value |-> v]]

\* `!task` on the result of findUnique, which is a row or null.
Missing(task) == task = Null

\* Mutant of CreateData: the status is not overridden.
CreateDataKeepStatus(dto) == [f \in DOMAIN dto |-> dto[f]]

\* {...createTaskDto, status: 'pendiente'}
CreateData(dto) ==
    [f \in DOMAIN dto \cup {"status"} |->
        IF f = "status" THEN Str("pendiente") ELSE dto[f]]

\* Mutant of UpdateData: the status is forced as create forces it.
UpdateDataForcingStatus(dto) ==
    [f \in DOMAIN dto \cup {"status"} |->
        IF f = "status" THEN Str("pendiente") ELSE dto[f]]

\* {...updateTaskDto}
UpdateData(dto) == [f \in DOMAIN dto |-> dto[f]]

\* Mutant of FindAllResult: the store's answer is returned as it is.
FindAllResultRaw(tasks) == tasks

\* `tasks || []`: an array is truthy, null is not.
FindAllResult(tasks) == IF tasks = Null THEN Array(<<>>) ELSE tasks

\* The continuation of `await this.prisma.task.create(...)`: a rejection
\* leaves create, a row goes on to the emit.
CreateStored(q, out) ==
    IF out = Fault THEN Throw(q, StoreFault)
    ELSE [q EXCEPT !.pc = "emit", !.row = out]

\* ------------------------------------------------ TasksService.create
\* create(createTaskDto): the call up to the store serving prisma.task.create.
\* q0 is the record of the invocation before the call.
CreateCall(r, dto, q0) ==
    /\ r = started + 1
    /\ r <= MaxReqs
    /\ nextId <= MaxId
    /\ started' = r
    /\ LET q == [q0 EXCEPT !.op = "create", !.dto = dto, !.calls = 1, !.muts = 1] IN
         \/ /\ req' = [req EXCEPT ![r] = CreateStored(q, Fault)]
            /\ UNCHANGED <<store, nextId, clock, commits>>
         \/ LET row == NewRow(CreateData(dto)) IN
            /\ store' = [store EXCEPT ![row.id] = row]
            /\ nextId' = nextId + 1
            /\ clock' = Now
            /\ commits' = Append(commits, [by |-> r, kind |-> "create", id |-> row.id, row |-> row])
            /\ req' = [req EXCEPT ![r] = CreateStored(q, row)]
    /\ UNCHANGED <<published, connected, proc>>

Create(r, dto) == CreateCall(r, dto, Idle)

\* What create hands to emitTaskCreated, and what it returns.
CreateEmitArg(q) == q.row
CreateReturn(q) == q.row

\* Mutant of CreateEmit: create returns the row without publishing it.
CreateEmitSilent(r) ==
    /\ req[r].pc = "emit"
    /\ req[r].op = "create"
    /\ LET q == [req[r] EXCEPT !.emits = @ + 1] IN
         \/ /\ req' = [req EXCEPT ![r] = Return(q, CreateReturn(q))]
            /\ UNCHANGED published
         \/ /\ req' = [req EXCEPT ![r] = Throw(q, PublishFault)]
            /\ UNCHANGED published
    /\ UNCHANGED <<store, nextId, clock, commits, started, connected, proc>>

\* this.taskGateway.emitTaskCreated(newTask); return newTask. An exception of
\* server.emit is caught nowhere and leaves create.
CreateEmit(r) ==
    /\ req[r].pc = "emit"
    /\ req[r].op = "create"
    /\ LET q == [req[r] EXCEPT !.emits = @ + 1] IN
         \/ /\ published' = Broadcast(EmitTaskCreated(CreateEmitArg(q)), r)
            /\ req' = [req EXCEPT ![r] = Return(q, CreateReturn(q))]
         \/ /\ req' = [req EXCEPT ![r] = Throw(q, PublishFault)]
            /\ UNCHANGED published
    /\ UNCHANGED <<store, nextId, clock, commits, started, connected, proc>>

\* ----------------------------------------------- TasksService.findAll
\* const tasks = await this.prisma.task.findMany(); return tasks || [].
\* The store yields its rows; the store double of the unit tests also yields
\* null.
FindAllCall(r, q0) ==
    /\ r = started + 1
    /\ r <= MaxReqs
    /\ started' = r
    /\ LET q == [q0 EXCEPT !.op = "findAll",
                         !.calls = 1, !.reads = 1] IN
         \/ req' = [req EXCEPT ![r] = Throw(q, StoreFault)]
         \/ \E tasks \in {FindMany, Null} :
              req' = [req EXCEPT ![r] =
                        Return([q EXCEPT !.task = tasks], FindAllResult(tasks))]
    /\ UNCHANGED <<store, nextId, clock, commits, published, connected, proc>>

FindAll(r) == FindAllCall(r, Idle)

\* ----------------------------------------------- TasksService.findOne
\* if (!task) throw new NotFoundException(...); return task.
FindOneFound(q, task) ==
    IF Missing(task) THEN Throw([q EXCEPT !.task = task], NotFoundException(q.id))
    ELSE Return([q EXCEPT !.task = task], task)

\* Mutant of FindOneCall: a successful read publishes the row it found.
FindOneCallPublishing(r, id, q0) ==
    /\ r = started + 1
    /\ r <= MaxReqs
    /\ started' = r
    /\ LET q == [q0 EXCEPT !.op = "findOne", !.id = id,
                         !.calls = 1, !.reads = 1] IN
         \/ /\ req' = [req EXCEPT ![r] = Throw(q, StoreFault)]
            /\ UNCHANGED published
         \/ /\ req' = [req EXCEPT ![r] = FindOneFound(q, FindUnique(id))]
            /\ published' = IF Missing(FindUnique(id)) THEN published
                            ELSE Broadcast(EmitTaskUpdated(FindUnique(id)), r)
    /\ UNCHANGED <<store, nextId, clock, commits, connected, proc>>

FindOneCall(r, id, q0) ==
    /\ r = started + 1
    /\ r <= MaxReqs
    /\ started' = r
    /\ LET q == [q0 EXCEPT !.op = "findOne", !.id = id,
                         !.calls = 1, !.reads = 1] IN
         \/ req' = [req EXCEPT ![r] = Throw(q, StoreFault)]
         \/ req' = [req EXCEPT ![r] = FindOneFound(q, FindUnique(id))]
    /\ UNCHANGED <<store, nextId, clock, commits, published, connected, proc>>

FindOne(r, id) == FindOneCall(r, id, Idle)

\* ------------------------------------------------ TasksService.update
\* Mutant of UpdateFound: no existence check.
UpdateFoundNoCheck(q, task) == [q EXCEPT !.task = task, !.pc = "mutate"]

\* The existence check: a miss throws NotFound, a row goes on to the update.
UpdateFound(q, task) ==
    IF Missing(task) THEN Throw([q EXCEPT !.task = task], NotFoundException(q.id))
    ELSE [q EXCEPT !.task = task, !.pc = "mutate"]

\* update(id, updateTaskDto): the call up to the store serving the findUnique
\* of the existence check.
UpdateCall(r, id, dto, q0) ==
    /\ r = started + 1
    /\ r <= MaxReqs
    /\ started' = r
    /\ LET q == [q0 EXCEPT !.op = "update", !.id = id, !.dto = dto,
                         !.calls = 1, !.reads = 1] IN
         \/ req' = [req EXCEPT ![r] = Throw(q, StoreFault)]
         \/ req' = [req EXCEPT ![r] = UpdateFound(q, FindUnique(id))]
    /\ UNCHANGED <<store, nextId, clock, commits, published, connected, proc>>

UpdateFind(r, id, dto) == UpdateCall(r, id, dto, Idle)

\* Mutant of UpdateStored: a rejected update is swallowed and the row of the
\* existence check goes on to the emit.
UpdateStoredSwallowFault(q, out) ==
    IF out = Fault THEN [q EXCEPT !.pc = "emit", !.row = q.task]
    ELSE [q EXCEPT !.pc = "emit", !.row = out]

\* The continuation of `await this.prisma.task.update(...)`.
UpdateStored(q, out) ==
    IF out = Fault THEN Throw(q, StoreFault)
    ELSE [q EXCEPT !.pc = "emit", !.row = out]

\* Mutant of UpdateMutate: the row of the existence check, with the supplied
\* fields over it, is written back whole.
UpdateMutateWritingBack(r) ==
    /\ req[r].pc = "mutate"
    /\ req[r].op = "update"
    /\ LET q == [req[r] EXCEPT !.muts = @ + 1] IN
         \/ /\ req' = [req EXCEPT ![r] = UpdateStored(q, Fault)]
            /\ UNCHANGED <<store, clock, commits>>
         \/ /\ store[q.id] # Null
            /\ LET data == [f \in {"titulo", "descripcion", "status"} |->
                              IF f \in DOMAIN q.dto THEN q.dto[f] ELSE q.task[f]]
                   row == Patched(store[q.id], data) IN
                 /\ store' = [store EXCEPT ![q.id] = row]
                 /\ clock' = Now
                 /\ commits' = Append(commits, [by |-> r, kind |-> "update", id |-> q.id, row |-> row])
                 /\ req' = [req EXCEPT ![r] = UpdateStored(q, row)]
    /\ UNCHANGED <<nextId, started, published, connected, proc>>

\* Mutant of UpdateMutate: an upsert; when the row is gone it is written
\* again from the row the existence check saw.
UpdateMutateUpsert(r) ==
    /\ req[r].pc = "mutate"
    /\ req[r].op = "update"
    /\ LET q == [req[r] EXCEPT !.muts = @ + 1] IN
         \/ /\ req' = [req EXCEPT ![r] = UpdateStored(q, Fault)]
            /\ UNCHANGED <<store, clock, commits>>
         \/ LET old == IF store[q.id] # Null THEN store[q.id] ELSE q.task
                row == Patched(old, UpdateData(q.dto)) IN
                 /\ store' = [store EXCEPT ![q.id] = row]
                 /\ clock' = Now
                 /\ commits' = Append(commits, [by |-> r, kind |-> "update", id |-> q.id, row |-> row])
                 /\ req' = [req EXCEPT ![r] = UpdateStored(q, row)]
    /\ UNCHANGED <<nextId, started, published, connected, proc>>

\* The store serving prisma.task.update({where: {id}, data}): it rejects on a
\* fault and when the row is gone, else it writes the row.
UpdateMutate(r) ==
    /\ req[r].pc = "mutate"
    /\ req[r].op = "update"
    /\ LET q == [req[r] EXCEPT !.muts = @ + 1] IN
         \/ /\ req' = [req EXCEPT ![r] = UpdateStored(q, Fault)]
            /\ UNCHANGED <<store, clock, commits>>
         \/ /\ store[q.id] # Null
            /\ LET row == Patched(store[q.id], UpdateData(q.dto)) IN
                 /\ store' = [store EXCEPT ![q.id] = row]
                 /\ clock' = Now
                 /\ commits' = Append(commits, [by |-> r, kind |-> "update", id |-> q.id, row |-> row])
                 /\ req' = [req EXCEPT ![r] = UpdateStored(q, row)]
    /\ UNCHANGED <<nextId, started, published, connected, proc>>

\* Mutant of UpdateEmitArg: the row of the existence check is emitted.
UpdateEmitArgStale(q) == q.task

\* What update hands to emitTaskUpdated, and what it returns.
UpdateEmitArg(q) == q.row
UpdateReturn(q) == q.row

\* this.taskGateway.emitTaskUpdated(updatedTask); return updatedTask.
UpdateEmit(r) ==
    /\ req[r].pc = "emit"
    /\ req[r].op = "update"
    /\ LET q == [req[r] EXCEPT !.emits = @ + 1] IN
         \/ /\ published' = Broadcast(EmitTaskUpdated(UpdateEmitArg(q)), r)
            /\ req' = [req EXCEPT ![r] = Return(q, UpdateReturn(q))]
         \/ /\ req' = [req EXCEPT ![r] = Throw(q, PublishFault)]
            /\ UNCHANGED published
    /\ UNCHANGED <<store, nextId, clock, commits, started, connected, proc>>

\* ------------------------------------------------ TasksService.remove
\* The existence check of remove.
RemoveFound(q, task) ==
    IF Missing(task) THEN Throw([q EXCEPT !.task = task], NotFoundException(q.id))
    ELSE [q EXCEPT !.task = task, !.pc = "mutate"]

\* remove(id): the call up to the store serving the findUnique of the
\* existence check.
RemoveCall(r, id, q0) ==
    /\ r = started + 1
    /\ r <= MaxReqs
    /\ started' = r
    /\ LET q == [q0 EXCEPT !.op = "remove", !.id = id,
                         !.calls = 1, !.reads = 1] IN
         \/ req' = [req EXCEPT ![r] = Throw(q, StoreFault)]
         \/ req' = [req EXCEPT ![r] = RemoveFound(q, FindUnique(id))]
    /\ UNCHANGED <<store, nextId, clock, commits, published, connected, proc>>

RemoveFind(r, id) == RemoveCall(r, id, Idle)

\* Mutant of RemoveStored: the rejection is swallowed and remove goes on to
\* emit the row of its existence check.
RemoveStoredEmitAnyway(q, out) ==
    [q EXCEPT !.pc = "emit", !.row = IF out = Fault THEN q.task ELSE out]

\* The continuation of `await this.prisma.task.delete(...)`.
RemoveStored(q, out) ==
    IF out = Fault THEN Throw(q, StoreFault)
    ELSE [q EXCEPT !.pc = "emit", !.row = out]

\* The store serving prisma.task.delete({where: {id}}): it rejects on a fault
\* and when the row is gone, else it removes the row and yields it.
RemoveMutate(r) ==
    /\ req[r].pc = "mutate"
    /\ req[r].op = "remove"
    /\ LET q == [req[r] EXCEPT !.muts = @ + 1] IN
         \/ /\ req' = [req EXCEPT ![r] = RemoveStored(q, Fault)]
            /\ UNCHANGED <<store, commits>>
         \/ /\ store[q.id] # Null
            /\ store' = [store EXCEPT ![q.id] = Null]
            /\ commits' = Append(commits, [by |-> r, kind |-> "remove", id |-> q.id, row |-> store[q.id]])
            /\ req' = [req EXCEPT ![r] = RemoveStored(q, store[q.id])]
    /\ UNCHANGED <<nextId, clock, started, published, connected, proc>>

\* Mutant of RemoveEmitArg: the row of the existence check is emitted.
RemoveEmitArgStale(q) == q.task

\* What remove hands to emitTaskDeleted, and what it returns.
RemoveEmitArg(q) == q.row
RemoveReturn(q) == q.row

\* this.taskGateway.emitTaskDeleted(deletedTask); return deletedTask.
RemoveEmit(r) ==
    /\ req[r].pc = "emit"
    /\ req[r].op = "remove"
    /\ LET q == [req[r] EXCEPT !.emits = @ + 1] IN
         \/ /\ published' = Broadcast(EmitTaskDeleted(RemoveEmitArg(q)), r)
            /\ req' = [req EXCEPT ![r] = Return(q, RemoveReturn(q))]
         \/ /\ req' = [req EXCEPT ![r] = Throw(q, PublishFault)]
            /\ UNCHANGED published
    /\ UNCHANGED <<store, nextId, clock, commits, started, connected, proc>>

\* ------------------------------------------ TaskGateway connect/disconnect
\* handleConnection and handleDisconnect only log; socket.io keeps the set of
\* connected sessions.
HandleConnection(c) ==
    /\ c \notin connected
    /\ connected' = connected \cup {c}
    /\ UNCHANGED <<store, nextId, clock, commits, req, started, published, proc>>

HandleDisconnect(c) ==
    /\ c \in connected
    /\ connected' = connected \ {c}
    /\ UNCHANGED <<store, nextId, clock, commits, req, started, published, proc>>

\* ------------------------------------------------ validation boundary
\* @MaxLength(100) on titulo, @MaxLength(500) on descripcion.
TitleMaxLength == 100
DescriptionMaxLength == 500

\* A text of n characters.
RECURSIVE Rep(_)
Rep(n) ==
    IF n = 0 THEN ""
    ELSE IF n % 2 = 0 THEN LET half == Rep(n \div 2) IN half \o half
    ELSE "a" \o Rep(n - 1)

\* Mutant of ValidationPipeOptions: no whitelist; a body is handed on with
\* every property it came with.
ValidationPipeNoWhitelist ==
    [whitelist |-> FALSE, forbidNonWhitelisted |-> FALSE, transform |-> TRUE]

\* Mutant of ValidationPipeOptions: properties without a decorator are
\* stripped, not forbidden.
ValidationPipeStripsOnly ==
    [whitelist |-> TRUE, forbidNonWhitelisted |-> FALSE, transform |-> TRUE]

\* new ValidationPipe({whitelist, forbidNonWhitelisted, transform})
ValidationPipeOptions ==
    [whitelist |-> TRUE, forbidNonWhitelisted |-> TRUE, transform |-> TRUE]

\* Mutant of CreateTaskDto: titulo without @MaxLength.
CreateTaskDtoUnboundedTitle ==
    [titulo |-> [optional |-> FALSE,
                 checks |-> {"isString", "isNotEmpty"},
                 max |-> TitleMaxLength],
     descripcion |-> [optional |-> TRUE,
                      checks |-> {"isString", "maxLength"},
                      max |-> DescriptionMaxLength]]

\* The decorators of CreateTaskDto, per property.
CreateTaskDto ==
    [titulo |-> [optional |-> FALSE,
                 checks |-> {"isString", "isNotEmpty", "maxLength"},
                 max |-> TitleMaxLength],
     descripcion |-> [optional |-> TRUE,
                      checks |-> {"isString", "maxLength"},
                      max |-> DescriptionMaxLength]]

\* PartialType(C): the properties of C with their decorators, each made
\* optional.
PartialType(meta) == [p \in DOMAIN meta |-> [meta[p] EXCEPT !.optional = TRUE]]

\* Mutant of UpdateTaskDto: status without @IsEnum.
UpdateTaskDtoNoEnum ==
    [status |-> [optional |-> FALSE, checks |-> {}, max |-> 0]]
        @@ PartialType(CreateTaskDto)

\* class UpdateTaskDto extends PartialType(CreateTaskDto), with its own
\* property status, which carries @IsEnum(Status) and nothing else.
UpdateTaskDto ==
    [status |-> [optional |-> FALSE, checks |-> {"isEnum"}, max |-> 0]]
        @@ PartialType(CreateTaskDto)

\* The class-validator constraints the DTOs use.
Passes(check, v, max) ==
    CASE check = "isString" -> v.t = "string"
      [] check = "isNotEmpty" ->
            /\ v.t \notin {"null", "undefined"}
            /\ ~(v.t = "string" /\ v.s = "")
      [] check = "maxLength" -> v.t = "string" /\ Len(v.s) <= max
      [] check = "isEnum" -> v.t = "string" /\ v.s \in Status

\* The value of a property of a request body; undefined when it is absent.
Prop(body, p) == IF p \in DOMAIN body THEN body[p] ELSE Undefined

\* What validation reports for `body` against the class `meta`: the failed
\* constraints (those of an optional property are skipped when the value is
\* null or undefined) and, with forbidNonWhitelisted, every property that has
\* no decorator.
ValidationErrors(meta, body) ==
    { e \in { [property |-> p, constraint |-> c] :
                p \in DOMAIN meta,
                c \in {"isString", "isNotEmpty", "maxLength", "isEnum"} } :
        /\ e.constraint \in meta[e.property].checks
        /\ ~(meta[e.property].optional
               /\ Prop(body, e.property) \in {Null, Undefined})
        /\ ~Passes(e.constraint, Prop(body, e.property), meta[e.property].max) }
    \cup
    (IF ValidationPipeOptions.whitelist /\ ValidationPipeOptions.forbidNonWhitelisted
     THEN { [property |-> p, constraint |-> "whitelistValidation"] :
              p \in DOMAIN body \ DOMAIN meta }
     ELSE {})

\* whitelist: the object handed on holds the decorated properties only.
Whitelisted(meta, body) ==
    IF ValidationPipeOptions.whitelist
    THEN [p \in DOMAIN body \cap DOMAIN meta |-> body[p]]
    ELSE body

\* The 400 answer of the pipe.
BadRequest(errors) ==
    [kind |-> "error", error |-> "ValidationError", errors |-> errors]

\* The request bodies tried: every subset of these properties, each with one
\* of these values.
Bodies ==
    PartialObjects(
        [titulo |-> {Str(""), Str("a"), Str(Rep(TitleMaxLength)),
                     Str(Rep(TitleMaxLength + 1)), Num(5)},
         descripcion |-> {Str("d"), Str(Rep(DescriptionMaxLength)),
                          Str(Rep(DescriptionMaxLength + 1))},
         status |-> {Str("completada"), Str("hecho")},
         id |-> {9}])

\* The pipe answers 400: the controller method, and so the service, is never
\* called.
Reject(r, op, id, body, errors) ==
    /\ r = started + 1
    /\ r <= MaxReqs
    /\ started' = r
    /\ req' = [req EXCEPT ![r] =
                 [Idle EXCEPT !.op = op, !.id = id, !.body = body,
                              !.pc = "done", !.result = BadRequest(errors)]]
    /\ UNCHANGED <<store, nextId, clock, commits, published, connected, proc>>

\* POST /tasks: @Body() createTaskDto: CreateTaskDto through the pipe, then
\* tasksService.create(createTaskDto).
PostTasks(r, body) ==
    /\ started < MaxHttpReqs
    /\ LET errors == ValidationErrors(CreateTaskDto, body) IN
         IF errors = {}
         THEN CreateCall(r, Whitelisted(CreateTaskDto, body), [Idle EXCEPT !.body = body])
         ELSE Reject(r, "create", 0, body, errors)

\* PUT /tasks/:id: @Body() updateTaskDto: UpdateTaskDto through the pipe, then
\* tasksService.update(+id, updateTaskDto).
PutTask(r, id, body) ==
    /\ started < MaxHttpReqs
    /\ LET errors == ValidationErrors(UpdateTaskDto, body) IN
         IF errors = {}
         THEN UpdateCall(r, id, Whitelisted(UpdateTaskDto, body), [Idle EXCEPT !.body = body])
         ELSE Reject(r, "update", id, body, errors)

\* GET /tasks, GET /tasks/:id, DELETE /tasks/:id carry no body.
GetTasks(r) == started < MaxHttpReqs /\ FindAllCall(r, Idle)
GetTask(r, id) == started < MaxHttpReqs /\ FindOneCall(r, id, Idle)
DeleteTask(r, id) == started < MaxHttpReqs /\ RemoveCall(r, id, Idle)

\* ---------------------------------------------------------------- system
\* The invocation that begins next, if the run has one left.
Fresh == { r \in Reqs : r = started + 1 }
FreshHttp == { r \in Fresh : started < MaxHttpReqs }

\* The service with its callers: each invocation is a call of one of the five
\* methods with an argument of its declared type.
Next ==
    \/ \E r \in Fresh, dto \in CreateDtos : Create(r, dto)
    \/ \E r \in Reqs : CreateEmit(r)
    \/ \E r \in Fresh : FindAll(r)
    \/ \E r \in Fresh, id \in Ids : FindOne(r, id)
    \/ \E r \in Fresh, id \in Ids, dto \in UpdateDtos : UpdateFind(r, id, dto)
    \/ \E r \in Reqs : UpdateMutate(r)
    \/ \E r \in Reqs : UpdateEmit(r)
    \/ \E r \in Fresh, id \in Ids : RemoveFind(r, id)
    \/ \E r \in Reqs : RemoveMutate(r)
    \/ \E r \in Reqs : RemoveEmit(r)
    \/ \E c \in Clients : HandleConnection(c)
    \/ \E c \in Clients : HandleDisconnect(c)

Spec == Init /\ [][Next]_vars

\* The service behind its HTTP boundary: every call comes through the
\* controller and the ValidationPipe.
NextBoundary ==
    \/ \E r \in FreshHttp, body \in Bodies : PostTasks(r, body)
    \/ \E r \in FreshHttp, id \in Ids, body \in Bodies : PutTask(r, id, body)
    \/ \E r \in FreshHttp : GetTasks(r)
    \/ \E r \in FreshHttp, id \in Ids : GetTask(r, id)
    \/ \E r \in FreshHttp, id \in Ids : DeleteTask(r, id)
    \/ \E r \in Reqs : CreateEmit(r)
    \/ \E r \in Reqs : UpdateMutate(r)
    \/ \E r \in Reqs : UpdateEmit(r)
    \/ \E r \in Reqs : RemoveMutate(r)
    \/ \E r \in Reqs : RemoveEmit(r)

SpecBoundary == Init /\ [][NextBoundary]_vars

\* ----------------------------------------------------------- process start
\* The module of the configuration, evaluated when main.ts imports it:
\* validate process.env, throw on an error, else export envs.
LoadEnvs ==
    /\ proc.phase = "loading"
    /\ LET error == EnvsSchemaError(proc.env) IN
         IF error # Null
         THEN proc' = [proc EXCEPT !.phase = "crashed", !.error = error]
         ELSE proc' = [proc EXCEPT !.phase = "configured", !.envs = Envs(proc.env)]
    /\ UNCHANGED <<store, nextId, clock, commits, req, started, published, connected>>

\* bootstrap(): NestFactory.create, enableCors, useGlobalPipes.
CreateApp ==
    /\ proc.phase = "configured"
    /\ proc' = [proc EXCEPT !.phase = "created"]
    /\ UNCHANGED <<store, nextId, clock, commits, req, started, published, connected>>

\* await app.listen(envs.PORT_API).
Listen ==
    /\ proc.phase = "created"
    /\ proc' = [proc EXCEPT !.phase = "listening"]
    /\ UNCHANGED <<store, nextId, clock, commits, req, started, published, connected>>

\* The start of the process, from any environment.
InitStart ==
    /\ store = [i \in Ids |-> Null]
    /\ nextId = 1
    /\ clock = 0
    /\ commits = <<>>
    /\ req = [r \in Reqs |-> Idle]
    /\ started = 0
    /\ published = <<>>
    /\ connected = {}
    /\ \E env \in Environments : proc = Starting(env)

NextStart ==
    \/ LoadEnvs
    \/ CreateApp
    \/ Listen

SpecStart == InitStart /\ [][NextStart]_vars

\* ------------------------------------------------------------ properties
Done(r) == req[r].pc = "done"
Ok(r) == Done(r) /\ req[r].result.kind = "ok"
Failed(r, e) ==
    Done(r) /\ req[r].result.kind = "error" /\ req[r].result.error = e
Mutating(r) == req[r].op \in {"create", "update", "remove"}
ExistenceChecked(r) == req[r].op \in {"findOne", "update", "remove"}

\* The store mutations of invocation r that committed, and the row the store
\* returned for it.
CommitsBy(r) == { i \in DOMAIN commits : commits[i].by = r }
Committed(r) == CommitsBy(r) # {}
CommitRow(r) == commits[CHOOSE i \in CommitsBy(r) : TRUE].row

\* The events invocation r published.
EventsBy(r) == { i \in DOMAIN published : published[i].by = r }

\* The step in which the store commits the mutation of r.
CommitStep(r, kind) ==
    /\ Len(commits') = Len(commits) + 1
    /\ commits'[Len(commits')].by = r
    /\ commits'[Len(commits')].kind = kind

EventOf(op) ==
    CASE op = "create" -> "taskCreated"
      [] op = "update" -> "taskUpdated"
      [] op = "remove" -> "taskDeleted"

TaskFields == {"titulo", "descripcion", "status"}

\* C1: for create, update and remove, an event is published only after the
\* store mutation of that same invocation has committed, and an invocation
\* whose store call failed publishes nothing.
C1_PublishOnlyAfterCommit ==
    /\ [](\A i \in DOMAIN published : Committed(published[i].by))
    /\ [](\A r \in Reqs : Failed(r, "StoreFault") =>
             req[r].emits = 0 /\ EventsBy(r) = {})
    /\ [][\A r \in Reqs :
            (req'[r].emits > req[r].emits \/ EventsBy(r)' # EventsBy(r))
                => Committed(r)]_vars

C1_Witness ==
    /\ \E r \in Reqs : Mutating(r) /\ Ok(r) /\ EventsBy(r) # {}
    /\ \E r \in Reqs : Mutating(r) /\ Failed(r, "StoreFault") /\ req[r].muts = 1

\* C2: when the existence read of findOne, update or remove finds no row, the
\* invocation ends with NotFound, the mutating store call is never invoked,
\* no event is published and the store is left as it was.
C2_NotFoundTouchesNothing ==
    /\ [](\A r \in Reqs :
            (ExistenceChecked(r) /\ req[r].task = Null) =>
                /\ Failed(r, "NotFound")
                /\ req[r].muts = 0
                /\ req[r].emits = 0
                /\ ~Committed(r)
                /\ EventsBy(r) = {})
    /\ [][\A r \in Reqs :
            (req[r].pc = "idle" /\ ExistenceChecked(r)' /\ store[req'[r].id] = Null)
                => /\ Failed(r, "NotFound")' \/ Failed(r, "StoreFault")'
                   /\ store' = store
                   /\ published' = published]_vars

C2_Witness ==
    /\ \E r \in Reqs : req[r].op = "update" /\ Failed(r, "NotFound")
    /\ \E r \in Reqs : req[r].op = "remove" /\ Failed(r, "NotFound")
    /\ \E r \in Reqs : req[r].op = "findOne" /\ Failed(r, "NotFound")

\* C3: once the store mutation of a create, update or remove has committed,
\* the invocation returns the store's row as a success, whatever the publish
\* did.
C3_PublishCannotFailOperation ==
    \A r \in Reqs :
        (Mutating(r) /\ Committed(r) /\ Done(r)) =>
            Ok(r) /\ req[r].result.value = CommitRow(r)

\* C4: a successful create, update or remove has called its emit exactly
\* once, has published exactly one event, named taskCreated, taskUpdated or
\* taskDeleted, and that event's payload is the row the store mutation
\* returned, which is also the value returned.
C4_OnePublishOfTheStoredRow ==
    \A r \in Reqs :
        /\ Cardinality(EventsBy(r)) <= 1
        /\ (Mutating(r) /\ Committed(r) /\ Done(r)) => req[r].emits = 1
        /\ (Mutating(r) /\ Ok(r)) =>
              /\ Committed(r)
              /\ Cardinality(EventsBy(r)) = 1
              /\ \A i \in EventsBy(r) :
                    /\ published[i].event = EventOf(req[r].op)
                    /\ published[i].payload = CommitRow(r)
              /\ req[r].result.value = CommitRow(r)

C4_Witness ==
    /\ \E r \in Reqs : req[r].op = "create" /\ Ok(r)
    /\ \E r \in Reqs : req[r].op = "update" /\ Ok(r)
    /\ \E r \in Reqs : req[r].op = "remove" /\ Ok(r)

\* C5: the row create writes to the store, and the row it returns, has status
\* pendiente, whether or not the argument of create carries a status.
C5_CreatedStatusIsPendiente ==
    /\ [](\A r \in Reqs :
            (req[r].op = "create" /\ Committed(r)) =>
                /\ CommitRow(r).status = Str("pendiente")
                /\ Ok(r) => req[r].result.value.status = Str("pendiente"))
    /\ [][\A r \in Reqs :
            CommitStep(r, "create") =>
                store'[commits'[Len(commits')].id].status = Str("pendiente")]_vars

C5_Witness ==
    \E r \in Reqs :
        /\ req[r].op = "create"
        /\ req[r].pc = "emit"
        /\ "status" \in DOMAIN req[r].dto
        /\ req[r].dto.status = Str("completada")
        /\ store[req[r].row.id].status = Str("pendiente")

\* C6: the store mutation of an update writes the supplied fields and nothing
\* else: an omitted titulo, descripcion or status keeps the value the row had,
\* id and fechaCreacion stay, fechaActualizacion strictly increases, no other
\* row changes, and the row handed back is the row written.
C6_UpdateWritesOnlySuppliedFields ==
    [][\A r \in Reqs :
          CommitStep(r, "update") =>
              LET old == store[req[r].id]
                  new == store'[req[r].id]
                  dto == req[r].dto
              IN  /\ \A f \in TaskFields :
                        new[f] = IF f \in DOMAIN dto THEN dto[f] ELSE old[f]
                  /\ new.id = old.id
                  /\ new.fechaCreacion = old.fechaCreacion
                  /\ new.fechaActualizacion > old.fechaActualizacion
                  /\ \A i \in Ids \ {req[r].id} : store'[i] = store[i]
                  /\ req'[r].row = new]_vars

C6_Witness ==
    \E r \in Reqs :
        /\ req[r].op = "update"
        /\ req[r].pc = "emit"
        /\ DOMAIN req[r].dto = {"titulo"}
        /\ req[r].row.titulo = Str("b")
        /\ req[r].row.descripcion = Str("d")
        /\ req[r].row.status = Str("completada")
        /\ req[r].row.fechaActualizacion > req[r].row.fechaCreacion

\* C7: findAll never returns null: when it returns, the value is an array,
\* empty when the store read yielded null or no rows, and otherwise exactly
\* the rows the store read yielded.
C7_FindAllReturnsAnArray ==
    \A r \in Reqs :
        (req[r].op = "findAll" /\ Ok(r)) =>
            /\ req[r].result.value # Null
            /\ req[r].result.value.t = "array"
            /\ req[r].result.value.items =
                  (IF req[r].task = Null THEN <<>> ELSE req[r].task.items)

C7_Witness ==
    /\ \E r \in Reqs :
          /\ req[r].op = "findAll" /\ Ok(r)
          /\ req[r].task = Null
          /\ req[r].result.value.items = <<>>
    /\ \E r \in Reqs :
          /\ req[r].op = "findAll" /\ Ok(r)
          /\ req[r].task # Null
          /\ Len(req[r].result.value.items) > 0

\* C8: the store mutation of a remove takes the row out of the table and
\* yields the row as it was just before; the id then stays absent (findOne
\* on it ends with NotFound, findAll does not list it) unless a create
\* inserts it; a successful remove publishes one taskDeleted carrying that
\* row and returns it.
C8_RemoveDeletesAndReportsTheRow ==
    /\ [][\A r \in Reqs :
            CommitStep(r, "remove") =>
                /\ store[req[r].id] # Null
                /\ store'[req[r].id] = Null
                /\ commits'[Len(commits')].row = store[req[r].id]
                /\ \A i \in Ids \ {req[r].id} : store'[i] = store[i]]_vars
    /\ [][\A i \in Ids :
            (store[i] = Null /\ store'[i] # Null) =>
                \E r \in Reqs : CommitStep(r, "create")]_vars
    /\ [][\A r \in Reqs :
            (req[r].pc = "idle" /\ Ok(r)') =>
                /\ req'[r].op = "findOne" => store[req'[r].id] # Null
                /\ req'[r].op = "findAll" =>
                      \A k \in DOMAIN req'[r].result.value.items :
                          store[req'[r].result.value.items[k].id] # Null]_vars
    /\ [](\A r \in Reqs :
            (req[r].op = "remove" /\ Ok(r)) =>
                /\ \E i \in EventsBy(r) :
                      /\ published[i].event = "taskDeleted"
                      /\ published[i].payload = CommitRow(r)
                /\ req[r].result.value = CommitRow(r)
                /\ commits[CHOOSE i \in CommitsBy(r) : TRUE].kind = "remove")

C8_Witness ==
    \E r \in Reqs, g \in Reqs :
        /\ req[r].op = "remove" /\ Ok(r)
        /\ g > r
        /\ req[g].op = "findOne"
        /\ req[g].id = req[r].id
        /\ Failed(g, "NotFound")
        /\ store[req[r].id] = Null

\* C9: findOne, update and remove end with NotFound exactly when their
\* existence read, which yields the store's entry for the id at that moment,
\* yielded no row, and the message of the NotFound names the requested id.
C9_NotFoundIffReadMissed ==
    /\ [](\A r \in Reqs :
            ExistenceChecked(r) =>
                /\ Failed(r, "NotFound") <=> req[r].task = Null
                /\ Failed(r, "NotFound") =>
                      req[r].result.message =
                          [prefix |-> "La tarea con ID ",
                           id |-> req[r].id,
                           suffix |-> " no existe"])
    /\ [][\A r \in Reqs :
            (req[r].task = Undefined /\ req'[r].task # Undefined /\ ExistenceChecked(r)')
                => req'[r].task = store[req'[r].id]]_vars

C9_Witness ==
    /\ \E r \in Reqs :
          /\ req[r].op = "remove"
          /\ Failed(r, "NotFound")
          /\ req[r].id = 2
          /\ req[r].result.message.id = 2
    /\ \E r \in Reqs :
          /\ req[r].op = "update"
          /\ req[r].task # Null
          /\ req[r].task # Undefined
          /\ Done(r)

\* C10: a PUT whose body supplies any subset of titulo, descripcion and
\* status, each with a valid value, passes the pipe and reaches the service;
\* a PUT whose body supplies a status outside the enum is rejected before
\* the service.
ValidTitulo(v) == v.t = "string" /\ v.s # "" /\ Len(v.s) <= TitleMaxLength
ValidDescripcion(v) == v.t = "string" /\ Len(v.s) <= DescriptionMaxLength
ValidStatus(v) == v.t = "string" /\ v.s \in Status
ValidPartialUpdate(body) ==
    /\ DOMAIN body \subseteq TaskFields
    /\ "titulo" \in DOMAIN body => ValidTitulo(body.titulo)
    /\ "descripcion" \in DOMAIN body => ValidDescripcion(body.descripcion)
    /\ "status" \in DOMAIN body => ValidStatus(body.status)

C10_PutAcceptsAnyValidSubset ==
    \A r \in Reqs :
        (req[r].op = "update" /\ req[r].body # Undefined) =>
            /\ ValidPartialUpdate(req[r].body) => req[r].calls = 1
            /\ ("status" \in DOMAIN req[r].body /\ ~ValidStatus(req[r].body.status))
                  => req[r].calls = 0 /\ Failed(r, "ValidationError")

\* A POST /tasks whose body carries a status.
PostWithStatus(r) ==
    /\ req[r].op = "create"
    /\ req[r].body # Undefined
    /\ "status" \in DOMAIN req[r].body

\* The body of r without its status.
BodyWithoutStatus(r) ==
    [p \in DOMAIN req[r].body \ {"status"} |-> req[r].body[p]]

\* C11 (as stated): a create request that carries a status is not rejected;
\* the status is ignored and the task is created with status pendiente.
C11_CreateWithStatusNotRejected ==
    \A r \in Reqs :
        (PostWithStatus(r) /\ ValidationErrors(CreateTaskDto, BodyWithoutStatus(r)) = {})
            => /\ ~Failed(r, "ValidationError")
               /\ req[r].calls = 1

\* C11 (amended): a create request that carries a status is rejected at the
\* validation boundary, status being no property of the create body: the
\* answer is a validation error naming status, the service is not called and
\* no task is created.
C11_CreateWithStatusRejected ==
    \A r \in Reqs :
        PostWithStatus(r) =>
            /\ Failed(r, "ValidationError")
            /\ [property |-> "status", constraint |-> "whitelistValidation"]
                  \in req[r].result.errors
            /\ req[r].calls = 0
            /\ ~Committed(r)

C11_Witness ==
    \E r \in Reqs :
        /\ PostWithStatus(r)
        /\ req[r].body = [titulo |-> Str("a"), status |-> Str("completada")]
        /\ Failed(r, "ValidationError")
        /\ req[r].result.errors =
              {[property |-> "status", constraint |-> "whitelistValidation"]}

\* A create body that breaks a rule of the create request: titulo missing,
\* not a text, empty or longer than 100 characters, or a descripcion longer
\* than 500 characters.
InvalidCreateBody(body) ==
    \/ "titulo" \notin DOMAIN body
    \/ body.titulo.t # "string"
    \/ body.titulo.s = ""
    \/ Len(body.titulo.s) > 100
    \/ /\ "descripcion" \in DOMAIN body
       /\ body.descripcion.t = "string"
       /\ Len(body.descripcion.s) > 500

\* C12: a create request that fails boundary validation is answered with a
\* client error before the service is invoked: no store call is made, the
\* store is unchanged and no event is published.
C12_InvalidCreateNeverReachesService ==
    /\ [](\A r \in Reqs :
            (req[r].op = "create" /\ req[r].body # Undefined
                /\ InvalidCreateBody(req[r].body)) =>
                /\ Failed(r, "ValidationError")
                /\ req[r].calls = 0
                /\ req[r].muts = 0
                /\ req[r].emits = 0
                /\ ~Committed(r)
                /\ EventsBy(r) = {})
    /\ [][\A r \in Reqs :
            (req[r].pc = "idle" /\ req'[r].op = "create"
                /\ req'[r].body # Undefined /\ InvalidCreateBody(req'[r].body)) =>
                /\ store' = store
                /\ nextId' = nextId
                /\ commits' = commits
                /\ published' = published]_vars

C12_Witness ==
    \E r \in Reqs :
        /\ req[r].op = "create" /\ Failed(r, "ValidationError")
        /\ req[r].body = [titulo |-> Str(Rep(101))]
        /\ req[r].calls = 0
        /\ \E i \in Ids : store[i] # Null

\* The texts among the environments tried that are numbers, and those that
\* are URIs.
NumberTexts == {<<"3", "0", "0", "0">>, <<"8", "0">>}
UriTexts == {<<"f", "i", "l", "e", ":", ".", "/", "d", "e", "v", ".", "d", "b">>}
ModeTexts ==
    {<<"d", "e", "v", "e", "l", "o", "p", "m", "e", "n", "t">>,
     <<"p", "r", "o", "d", "u", "c", "t", "i", "o", "n">>,
     <<"t", "e", "s", "t">>}

\* An environment whose required configuration is absent or malformed.
BadEnvironment(env) ==
    \/ "PORT_API" \notin DOMAIN env
    \/ env.PORT_API \notin NumberTexts
    \/ "DATABASE_URL" \notin DOMAIN env
    \/ env.DATABASE_URL \notin UriTexts
    \/ "NODE_ENV" \in DOMAIN env /\ env.NODE_ENV \notin ModeTexts

\* C13: with PORT_API missing or not a number, DATABASE_URL missing or not a
\* URI, or NODE_ENV present and not development, production or test, loading
\* the configuration throws and the server never listens; otherwise loading
\* succeeds, and an absent NODE_ENV is taken as development.
C13_RefusesToStartOnBadConfig ==
    /\ [](proc.phase # "loading" =>
            (BadEnvironment(proc.env) <=> proc.phase = "crashed"))
    /\ [](proc.phase = "crashed" => proc.envs = Undefined /\ proc.error # Null)
    /\ []((proc.phase \in {"configured", "created", "listening"}
              /\ "NODE_ENV" \notin DOMAIN proc.env) =>
            proc.envs.NODE_ENV = <<"d", "e", "v", "e", "l", "o", "p", "m", "e", "n", "t">>)
    /\ [][proc.phase = "crashed" => proc'.phase = "crashed"]_vars
    /\ [][proc'.phase = "listening" => ~BadEnvironment(proc.env)]_vars

C13_Witness ==
    /\ proc.phase = "crashed"
    /\ DOMAIN proc.env = {"PORT_API", "DATABASE_URL", "NODE_ENV"}
    /\ proc.env.PORT_API \in NumberTexts
    /\ proc.env.DATABASE_URL \in UriTexts
    /\ proc.env.NODE_ENV = <<"s", "t", "a", "g", "i", "n", "g">>
    /\ proc.error = [key |-> "NODE_ENV", type |-> "any.only"]

\* Invocation r ends in this step with a store fault.
FaultStep(r) == ~Done(r) /\ Failed(r, "StoreFault")'

\* Invocation r is in the service and waits for the store to serve a call.
AwaitsStore(r) == req[r].pc = "mutate"

\* C14: no retries. An invocation issues its store read at most once, its
\* store mutation at most once and publishes at most once; a store call that
\* faults ends the invocation in that very step with that fault, after which
\* it does nothing more: no further store call, no event.
C14_NoRetries ==
    /\ [](\A r \in Reqs :
            /\ req[r].reads <= 1
            /\ req[r].muts <= 1
            /\ req[r].emits <= 1
            /\ Cardinality(CommitsBy(r)) <= 1
            /\ Cardinality(EventsBy(r)) <= 1
            /\ Failed(r, "StoreFault") =>
                  /\ ~Committed(r)
                  /\ req[r].emits = 0
                  /\ EventsBy(r) = {}
                  /\ (req[r].task = Undefined /\ req[r].op \in {"update", "remove"})
                        => req[r].muts = 0)
    /\ [][\A r \in Reqs :
            /\ FaultStep(r) =>
                  /\ store' = store
                  /\ commits' = commits
                  /\ published' = published
            /\ (AwaitsStore(r) /\ req'[r] # req[r] /\ ~CommitStep(r, req[r].op)) =>
                  FaultStep(r)
            /\ Done(r) => req'[r] = req[r]]_vars

C14_Witness ==
    /\ \E r \in Reqs :
          /\ req[r].op = "update" /\ Failed(r, "StoreFault")
          /\ req[r].reads = 1 /\ req[r].muts = 1 /\ req[r].emits = 0
          /\ store[req[r].id] # Null
    /\ \E r \in Reqs :
          /\ req[r].op = "remove" /\ Failed(r, "StoreFault")
          /\ req[r].reads = 1 /\ req[r].muts = 0

\* C15: whatever create, update and delete requests come through the
\* validation boundary, the status of every stored task is pendiente,
\* en_progreso or completada.
C15_StoredStatusIsEnumerated ==
    \A i \in Ids :
        store[i] # Null =>
            /\ store[i].status.t = "string"
            /\ store[i].status.s \in {"pendiente", "en_progreso", "completada"}

C15_Witness ==
    \E r \in Reqs :
        /\ req[r].op = "update"
        /\ req[r].body # Undefined
        /\ "status" \in DOMAIN req[r].body
        /\ Committed(r)
        /\ store[req[r].id] # Null
        /\ store[req[r].id].status = Str("completada")

\* C16: the id of a task is unique and immutable. No two stored rows share
\* an id, no step changes the id of a row that stays, and the row an update
\* accepted at the boundary writes and returns has the id it was asked for.
C16_IdUniqueAndImmutable ==
    /\ [](\A i, j \in Ids :
            (store[i] # Null /\ store[j] # Null /\ i # j) =>
                store[i].id # store[j].id)
    /\ [](\A i \in Ids : store[i] # Null => store[i].id = i)
    /\ [](\A r \in Reqs :
            (req[r].op = "update" /\ Committed(r)) =>
                /\ CommitRow(r).id = req[r].id
                /\ Ok(r) => req[r].result.value.id = req[r].id)
    /\ [][\A i \in Ids :
            (store[i] # Null /\ store'[i] # Null) => store'[i].id = store[i].id]_vars

C16_Witness ==
    \E r \in Reqs :
        /\ req[r].op = "update"
        /\ req[r].body # Undefined
        /\ Ok(r)
        /\ req[r].result.value.id = req[r].id
        /\ store[req[r].id] # Null
        /\ store[req[r].id].fechaActualizacion > store[req[r].id].fechaCreacion

\* The publishes that were delivered to session c.
Received(c) == { i \in DOMAIN published : c \in published[i].to }

\* C17: a publish is delivered to exactly the sessions connected at that
\* moment. A session gets an event only in the step that publishes it and
\* only while connected, one event per publish; a connect or disconnect
\* delivers nothing and a delivery made is never changed, so nothing is
\* replayed to a session that connects later.
C17_DeliveredToConnectedOnly ==
    /\ [][\A i \in DOMAIN published' :
            IF i \in DOMAIN published
            THEN published'[i] = published[i]
            ELSE /\ i = Len(published) + 1
                 /\ published'[i].to = connected]_vars
    /\ [][\A c \in Clients :
            Received(c)' # Received(c) =>
                /\ c \in connected
                /\ connected' = connected
                /\ Received(c)' = Received(c) \cup {Len(published) + 1}]_vars
    /\ [][connected' # connected => published' = published]_vars

C17_Witness ==
    \E c \in Clients :
        /\ Len(published) = 2
        /\ published[1].to = {c}
        /\ published[2].to = {}
        /\ c \in connected
        /\ Received(c) = {1}

\* Invocation r begins in this step and is a read: findOne or findAll.
ReadStep(r) == req[r].pc = "idle" /\ req'[r].op \in {"findOne", "findAll"}

\* C19: findOne and findAll have no side effects. Whether they return or
\* throw, the step that serves them leaves the table and the published
\* events as they were, and the invocation never calls a store mutation or
\* an emit.
C19_ReadsHaveNoSideEffects ==
    /\ [][\A r \in Reqs :
            ReadStep(r) =>
                /\ store' = store
                /\ nextId' = nextId
                /\ clock' = clock
                /\ commits' = commits
                /\ published' = published
                /\ Done(r)']_vars
    /\ [](\A r \in Reqs :
            req[r].op \in {"findOne", "findAll"} =>
                /\ req[r].muts = 0
                /\ req[r].emits = 0
                /\ ~Committed(r)
                /\ EventsBy(r) = {})

C19_Witness ==
    /\ \E r \in Reqs : req[r].op = "findOne" /\ Failed(r, "NotFound")
    /\ \E r \in Reqs :
          /\ req[r].op = "findAll" /\ Ok(r)
          /\ req[r].result.value.items # <<>>
          /\ req[r].result.value.items = RowsFrom(1)

\* Update r has seen its row and has its store mutation still to come, and
\* the row has been deleted meanwhile.
RowLostUnderUpdate(r) ==
    /\ req[r].op = "update"
    /\ req[r].pc = "mutate"
    /\ req[r].task # Null
    /\ store[req[r].id] = Null

\* C20: when a delete of the id commits between the existence check of an
\* update and its store mutation, the update does not write the row again:
\* its store mutation fails, the update ends with the store's fault, not with
\* NotFound, and no taskUpdated is published for it.
C20_UpdateLosingRaceFaults ==
    /\ [][\A r \in Reqs :
            (RowLostUnderUpdate(r) /\ req'[r] # req[r]) =>
                /\ Failed(r, "StoreFault")'
                /\ req'[r].muts = 1
                /\ store' = store
                /\ commits' = commits
                /\ published' = published]_vars
    /\ [][\A r \in Reqs :
            (RowLostUnderUpdate(r) \/ (Done(r) /\ req[r].op = "update" /\ ~Committed(r))) =>
                /\ ~Committed(r)'
                /\ EventsBy(r)' = {}
                /\ ~Failed(r, "NotFound")' \/ req[r].task = Null]_vars

C20_Witness ==
    \E r \in Reqs, g \in Reqs :
        /\ g > r
        /\ RowLostUnderUpdate(r)
        /\ req[r].muts = 0
        /\ req[g].op = "remove" /\ req[g].id = req[r].id
        /\ Ok(g)
        /\ req[g].result.value = req[r].task

\* The deletes of id i, and the taskDeleted events published for it.
DeletesOf(i) == { r \in Reqs : req[r].op = "remove" /\ req[r].id = i }
DeletedEventsOf(i) ==
    { k \in DOMAIN published :
        published[k].event = "taskDeleted" /\ published[k].payload.id = i }

\* C21: of the deletes of one id, however they interleave, at most one
\* succeeds and at most one taskDeleted is ever published for the id; every
\* other delete ends with NotFound or a store fault and publishes nothing.
C21_OneDeleteWins ==
    \A i \in Ids :
        /\ Cardinality({ r \in DeletesOf(i) : Ok(r) }) <= 1
        /\ Cardinality(DeletedEventsOf(i)) <= 1
        /\ \A r \in DeletesOf(i) :
              (Done(r) /\ ~Ok(r)) =>
                  /\ Failed(r, "NotFound") \/ Failed(r, "StoreFault")
                  /\ EventsBy(r) = {}

\* Where in the commit order the mutation of invocation r stands.
CommitIndex(r) == CHOOSE i \in CommitsBy(r) : TRUE

\* Events k1 and k2 are about the same id, k1 published first.
SameIdInOrder(k1, k2) ==
    /\ k1 < k2
    /\ published[k1].payload.id = published[k2].payload.id

EarlierDisjointUpdate(g, r) ==
    /\ g # r
    /\ req[g].op = "update"
    /\ req[g].id = req[r].id
    /\ req[g].pc = "emit"
    /\ Committed(g)
    /\ DOMAIN req[g].dto # {}
    /\ DOMAIN req[r].dto # {}
    /\ DOMAIN req[g].dto \cap DOMAIN req[r].dto = {}
    /\ store[req[r].id] # Null
    /\ \A f \in DOMAIN req[g].dto : store[req[r].id][f] = req[g].dto[f]

\* C23: two updates of one id that supply disjoint fields both take effect,
\* however they interleave. When the later one commits, the row holds the
\* values of both, also when the later one made its existence read before
\* the earlier one wrote; the emit and return that follow leave the row as it
\* is.
C23_DisjointUpdatesBothTakeEffect ==
    /\ [][\A r, g \in Reqs :
            (CommitStep(r, "update") /\ EarlierDisjointUpdate(g, r)) =>
                /\ \A f \in DOMAIN req[g].dto : store'[req[r].id][f] = req[g].dto[f]
                /\ \A f \in DOMAIN req[r].dto : store'[req[r].id][f] = req[r].dto[f]
                /\ req'[r].row = store'[req[r].id]]_vars
    /\ [][\A r \in Reqs :
            (req[r].pc = "emit" /\ req'[r].pc = "done") => store' = store]_vars

C23_Witness ==
    \E r, g \in Reqs :
        /\ req[r].op = "update" /\ req[r].pc = "emit" /\ Committed(r)
        /\ EarlierDisjointUpdate(g, r)
        /\ CommitIndex(g) < CommitIndex(r)
        /\ DOMAIN req[g].dto = {"titulo"}
        /\ DOMAIN req[r].dto = {"descripcion"}
        /\ req[r].task.titulo # req[g].dto.titulo
        /\ store[req[r].id].titulo = Str("b")
        /\ store[req[r].id].descripcion = Str("e")

\* No invocation is between its first store call and its return, and no
\* publish has thrown.
Quiescent == \A r \in Reqs : req[r].pc \in {"idle", "done"}
NoPublishFailed == \A r \in Reqs : ~Failed(r, "PublishFault")
StoredIds == { i \in Ids : store[i] # Null }
EventIds(ev) ==
    { published[k].payload.id : k \in { j \in DOMAIN published : published[j].event = ev } }

\* C24: at quiescence, with no publish failed, the ids in the store are the
\* ids with a taskCreated event and no taskDeleted event; and every event
\* ever published is for the id of a committed store mutation of its
\* publisher, of the kind the event names.
C24_StoreAndEventLogAgree ==
    /\ (Quiescent /\ NoPublishFailed) =>
          StoredIds = EventIds("taskCreated") \ EventIds("taskDeleted")
    /\ \A k \in DOMAIN published :
          \E c \in CommitsBy(published[k].by) :
              /\ commits[c].id = published[k].payload.id
              /\ EventOf(commits[c].kind) = published[k].event

C24_Witness ==
    /\ Quiescent
    /\ NoPublishFailed
    /\ started = MaxReqs
    /\ StoredIds # {}
    /\ EventIds("taskDeleted") # {}
    /\ StoredIds = EventIds("taskCreated") \ EventIds("taskDeleted")

====
